---- MODULE Spec2Model ----
(***************************************************************************)
(* Combat-and-progression engine of the RPG: Character (health accessors,  *)
(* attack, gain_experience), its Inventory and the optional GameLogger.    *)
(* Characters are records of the fields that Character.__init__ sets;      *)
(* every method is an operator from the object(s) before the call to the   *)
(* object(s) after it, its return value and the lines it prints.           *)
(***************************************************************************)
EXTENDS Integers, Sequences, FiniteSets, TLC

\* characters: the Character objects by name; constructed: the same objects
\* as __init__ left them; last: the most recent call; steps: calls made;
\* gamelogger: the GameLogger object a driver keeps; logged: the messages
\* that object's log method has been called with, in call order.
VARIABLES characters, constructed, last, steps, gamelogger, logged

vars == <<characters, constructed, last, steps, gamelogger, logged>>

(* ---------------------------------------------------------------- bounds *)

\* Number of method calls a driver makes in one run.
MaxSteps == 3

\* Number of Inventory method calls the driver of the inventory makes in one
\* run.
MaxInventorySteps == 5

(* ------------------------------------------------------------- constants *)

LEVEL_UP_EXP == 100

\* The product rounded up instead of truncated.
MultiplyStat_Ceil(x) == (x * 6 + 4) \div 5

\* The product taken down with math.floor instead of int().
MultiplyStat_Floor(x) == (x * 6) \div 5

\* The stat left as it was (the product is never assigned).
MultiplyStat_Unchanged(x) == x

\* int(x * EXP_MULTIPLIER) with EXP_MULTIPLIER = 1.2: int() truncates the
\* float product toward zero, which is 6x div 5 taken on the magnitude of x
\* (the float product agrees with the exact one for every |x| < 200000).
MultiplyStat(x) == IF x >= 0 THEN (x * 6) \div 5 ELSE -(((-x) * 6) \div 5)

\* Python's None, for an empty equipped slot or a missing receiver or
\* argument of a call.
None == "None"

\* An Optional[str]: Absent for Python's None, Str(s) for the string s (so
\* that the string 'None' is a string like any other).
Absent == <<>>
Str(s) == <<s>>

\* The references a driver holds to its two Character objects.
Names == {"hero", "enemy"}
Items == {"sword", "armor", "potion"}

(* ------------------------------------------------------------- Inventory *)

Inventory(max_size) ==
    [max_size |-> max_size, items |-> <<>>,
     equipped_weapon |-> None, equipped_armor |-> None]

\* `item in self.items`
Held(inv, item) == \E i \in 1..Len(inv.items) : inv.items[i] = item

RECURSIVE ListRemove(_, _)

\* A removal that drops the last occurrence instead of the first.
ListRemove_Last(items, item) ==
    IF \E i \in 1..Len(items) : items[i] = item
    THEN LET k == CHOOSE i \in 1..Len(items) :
                      /\ items[i] = item
                      /\ \A j \in (i + 1)..Len(items) : items[j] # item
         IN  SubSeq(items, 1, k - 1) \o SubSeq(items, k + 1, Len(items))
    ELSE items

\* list.remove(item): drops the first occurrence.
ListRemove(items, item) ==
    IF items = <<>> THEN <<>>
    ELSE IF Head(items) = item THEN Tail(items)
    ELSE <<Head(items)>> \o ListRemove(Tail(items), item)

\* add_item with the capacity test `len(self.items) > self.max_size`.
add_item_OffByOne(inv, item) ==
    IF Len(inv.items) > inv.max_size
    THEN [inv |-> inv, ret |-> FALSE]
    ELSE [inv |-> [inv EXCEPT !.items = Append(@, item)], ret |-> TRUE]

add_item(inv, item) ==
    IF Len(inv.items) >= inv.max_size
    THEN [inv |-> inv, ret |-> FALSE]
    ELSE [inv |-> [inv EXCEPT !.items = Append(@, item)], ret |-> TRUE]

\* remove_item that also clears an equipped slot holding the removed item.
remove_item_Unequips(inv, item) ==
    IF Held(inv, item)
    THEN [inv |-> [inv EXCEPT
                     !.items = ListRemove(@, item),
                     !.equipped_weapon = IF @ = item THEN None ELSE @,
                     !.equipped_armor = IF @ = item THEN None ELSE @],
          ret |-> TRUE]
    ELSE [inv |-> inv, ret |-> FALSE]

remove_item(inv, item) ==
    IF Held(inv, item)
    THEN [inv |-> [inv EXCEPT !.items = ListRemove(@, item)], ret |-> TRUE]
    ELSE [inv |-> inv, ret |-> FALSE]

\* equip_weapon without the `weapon in self.items` test.
equip_weapon_NoHoldCheck(inv, weapon) ==
    [inv |-> [inv EXCEPT !.equipped_weapon = weapon], ret |-> TRUE]

equip_weapon(inv, weapon) ==
    IF Held(inv, weapon)
    THEN [inv |-> [inv EXCEPT !.equipped_weapon = weapon], ret |-> TRUE]
    ELSE [inv |-> inv, ret |-> FALSE]

equip_armor(inv, armor) ==
    IF Held(inv, armor)
    THEN [inv |-> [inv EXCEPT !.equipped_armor = armor], ret |-> TRUE]
    ELSE [inv |-> inv, ret |-> FALSE]

use_consumable(inv, consumable) ==
    IF Held(inv, consumable)
    THEN [inv |-> [inv EXCEPT !.items = ListRemove(@, consumable)], ret |-> TRUE]
    ELSE [inv |-> inv, ret |-> FALSE]

(* ------------------------------------------------------------- Character *)

\* self.weapon of a character that has no weapon (Python's None).
NoWeapon == [name |-> None]

\* Weapon(weapon_name, ..., weapon_damage) if weapon_name else None: None and
\* the empty string are the falsy names.
Weapon(weapon_name, weapon_damage) ==
    IF weapon_name # Absent /\ weapon_name # Str("")
    THEN [name |-> weapon_name[1], damage |-> weapon_damage]
    ELSE NoWeapon

\* Character.__init__: no argument is validated or clamped.
Character(name, health, damage, weapon_name, weapon_damage, level, experience, max_inventory_size) ==
    [name |-> name, health |-> health, damage |-> damage,
     weapon |-> Weapon(weapon_name, weapon_damage),
     inventory |-> Inventory(max_inventory_size),
     level |-> level, experience |-> experience]

get_health(self) == self.health

\* set_health as a plain assignment, without the validation.
set_health_NoClamp(self, new_health) == [self EXCEPT !.health = new_health]

set_health(self, new_health) ==
    IF new_health < 0
    THEN [self EXCEPT !.health = 0]
    ELSE [self EXCEPT !.health = new_health]

\* The weapon bonus read from the inventory's equipped slot (the sword of the
\* tests has damage 10) instead of the character's own weapon attribute.
WeaponDamage_FromInventory(self) ==
    IF self.inventory.equipped_weapon # None THEN 10
    ELSE IF self.weapon # NoWeapon THEN self.weapon.damage ELSE 0

\* `self.weapon.damage if self.weapon else 0`
WeaponDamage(self) == IF self.weapon # NoWeapon THEN self.weapon.damage ELSE 0

\* logger.log(message) when a logger is given: one printed line.
Log(out, logger, message) == IF logger THEN Append(out, message) ELSE out

\* A level-up that resets experience to 0 instead of keeping the remainder.
LevelUp_ResetsExperience(self) ==
    [self EXCEPT !.experience = 0,
                 !.level = self.level + 1,
                 !.health = MultiplyStat(self.health),
                 !.damage = MultiplyStat(self.damage)]

\* One iteration of the body of `while self.experience >= LEVEL_UP_EXP`.
LevelUp(self) ==
    [self EXCEPT !.experience = self.experience - LEVEL_UP_EXP,
                 !.level = self.level + 1,
                 !.health = MultiplyStat(self.health),
                 !.damage = MultiplyStat(self.damage)]

\* The while loop of gain_experience; r = [self, ret, out].
RECURSIVE LevelUpLoop(_, _)

\* The loop as a single conditional: `if self.experience >= LEVEL_UP_EXP`.
LevelUpLoop_Once(r, logger) ==
    IF r.self.experience >= LEVEL_UP_EXP
    THEN [self |-> LevelUp(r.self), ret |-> TRUE, out |-> r.out]
    ELSE r

\* The loop with the test `self.experience > LEVEL_UP_EXP`.
RECURSIVE LevelUpLoop_Strict(_, _)
LevelUpLoop_Strict(r, logger) ==
    IF r.self.experience > LEVEL_UP_EXP
    THEN LevelUpLoop_Strict([self |-> LevelUp(r.self), ret |-> TRUE, out |-> r.out],
                            logger)
    ELSE r

\* The loop without `leveled_up = True`.
RECURSIVE LevelUpLoop_ForgetsFlag(_, _)
LevelUpLoop_ForgetsFlag(r, logger) ==
    IF r.self.experience >= LEVEL_UP_EXP
    THEN LevelUpLoop_ForgetsFlag([self |-> LevelUp(r.self), ret |-> r.ret,
                                  out |-> r.out], logger)
    ELSE r

LevelUpLoop(r, logger) ==
    IF r.self.experience >= LEVEL_UP_EXP
    THEN LET s == LevelUp(r.self)
             o1 == Log(r.out, logger, <<"leveled up to level", s.name, s.level>>)
             o2 == Log(o1, logger, <<"New stats", get_health(s), s.damage>>)
             o3 == Log(o2, logger, <<"Remaining experience", s.experience>>)
         IN  LevelUpLoop([self |-> s, ret |-> TRUE, out |-> o3], logger)
    ELSE r

\* gain_experience without the `amount < 0` rejection.
gain_experience_NoReject(self, amount, logger) ==
    LevelUpLoop([self |-> [self EXCEPT !.experience = self.experience + amount],
                 ret |-> FALSE, out |-> <<>>], logger)

\* gain_experience with `return False` indented under `if logger:`, so that
\* without a logger a negative amount falls through and is added.
gain_experience_RejectsOnlyWhenLogging(self, amount, logger) ==
    IF amount < 0 /\ logger
    THEN [self |-> self, ret |-> FALSE,
          out |-> Log(<<>>, logger, <<"negative experience", self.name>>)]
    ELSE LET added == [self EXCEPT !.experience = self.experience + amount]
             r == LevelUpLoop([self |-> added, ret |-> FALSE, out |-> <<>>], logger)
         IN  [r EXCEPT !.out = Log(@, logger,
                  <<"gained experience", self.name, amount, r.self.experience>>)]

gain_experience(self, amount, logger) ==
    IF amount < 0
    THEN [self |-> self, ret |-> FALSE,
          out |-> Log(<<>>, logger, <<"negative experience", self.name>>)]
    ELSE LET added == [self EXCEPT !.experience = self.experience + amount]
             r == LevelUpLoop([self |-> added, ret |-> FALSE, out |-> <<>>], logger)
         IN  [r EXCEPT !.out = Log(@, logger,
                  <<"gained experience", self.name, amount, r.self.experience>>)]

\* attack awarding the damage dealt as experience instead of LEVEL_UP_EXP.
attack_XPByDamage(cs, self, enemy, logger) ==
    LET total_damage == cs[self].damage + WeaponDamage(cs[self])
        hit == [cs EXCEPT ![enemy] = set_health(@, get_health(cs[enemy]) - total_damage)]
        enemy_defeated == get_health(hit[enemy]) <= 0
        g == gain_experience(hit[self], total_damage, logger)
    IN  [characters |-> IF enemy_defeated THEN [hit EXCEPT ![self] = g.self] ELSE hit,
         ret |-> <<total_damage, enemy_defeated>>, out |-> <<>>]

\* attack awarding LEVEL_UP_EXP on every hit, defeated or not.
attack_AlwaysXP(cs, self, enemy, logger) ==
    LET total_damage == cs[self].damage + WeaponDamage(cs[self])
        hit == [cs EXCEPT ![enemy] = set_health(@, get_health(cs[enemy]) - total_damage)]
        enemy_defeated == get_health(hit[enemy]) <= 0
        g == gain_experience(hit[self], LEVEL_UP_EXP, logger)
    IN  [characters |-> [hit EXCEPT ![self] = g.self],
         ret |-> <<total_damage, enemy_defeated>>, out |-> <<>>]

\* attack returning the health the defender actually lost.
attack_ReturnsHealthLost(cs, self, enemy, logger) ==
    LET total_damage == cs[self].damage + WeaponDamage(cs[self])
        hit == [cs EXCEPT ![enemy] = set_health(@, get_health(cs[enemy]) - total_damage)]
        enemy_defeated == get_health(hit[enemy]) <= 0
        g == gain_experience(hit[self], LEVEL_UP_EXP, logger)
    IN  [characters |-> IF enemy_defeated THEN [hit EXCEPT ![self] = g.self] ELSE hit,
         ret |-> <<get_health(cs[enemy]) - get_health(hit[enemy]), enemy_defeated>>,
         out |-> <<>>]

\* attack with `max(0, total_damage)` taken off the defender's health.
attack_NoNegativeDamage(cs, self, enemy, logger) ==
    LET total_damage == cs[self].damage + WeaponDamage(cs[self])
        hit == [cs EXCEPT ![enemy] =
                   set_health(@, get_health(cs[enemy])
                                   - (IF total_damage > 0 THEN total_damage ELSE 0))]
        enemy_defeated == get_health(hit[enemy]) <= 0
        g == gain_experience(hit[self], LEVEL_UP_EXP, logger)
    IN  [characters |-> IF enemy_defeated THEN [hit EXCEPT ![self] = g.self] ELSE hit,
         ret |-> <<total_damage, enemy_defeated>>, out |-> <<>>]

\* attack awarding experience only for a defender that was alive before it.
attack_OnlyKillsLiving(cs, self, enemy, logger) ==
    LET total_damage == cs[self].damage + WeaponDamage(cs[self])
        current_health == get_health(cs[enemy])
        hit == [cs EXCEPT ![enemy] = set_health(@, current_health - total_damage)]
        enemy_defeated == get_health(hit[enemy]) <= 0
        g == gain_experience(hit[self], LEVEL_UP_EXP, logger)
    IN  [characters |-> IF enemy_defeated /\ current_health > 0
                        THEN [hit EXCEPT ![self] = g.self] ELSE hit,
         ret |-> <<total_damage, enemy_defeated>>, out |-> <<>>]

\* attack.  cs holds the Character objects by reference and self and enemy
\* are references into it, which may be the same one: the hit is written to
\* the object enemy refers to before gain_experience runs on the object self
\* refers to.  r = [characters, ret, out].
attack(cs, self, enemy, logger) ==
    LET total_damage == cs[self].damage + WeaponDamage(cs[self])
        current_health == get_health(cs[enemy])
        hit == [cs EXCEPT ![enemy] = set_health(@, current_health - total_damage)]
        enemy_defeated == get_health(hit[enemy]) <= 0
        o1 == Log(<<>>, logger,
                  <<"COMBAT LOG", cs[self].name, cs[enemy].name, total_damage>>)
    IN  IF enemy_defeated
        THEN LET current_exp == hit[self].experience
                 g == gain_experience(hit[self], LEVEL_UP_EXP, logger)
                 o2 == Log(o1 \o g.out, logger,
                           <<"defeated", cs[self].name, cs[enemy].name, LEVEL_UP_EXP>>)
                 o3 == Log(o2, logger, <<"Total experience", current_exp + LEVEL_UP_EXP>>)
             IN  [characters |-> [hit EXCEPT ![self] = g.self],
                  ret |-> <<total_damage, enemy_defeated>>, out |-> o3]
        ELSE [characters |-> hit,
              ret |-> <<total_damage, enemy_defeated>>, out |-> o1]

\* display: r = [self, ret, out].  With a weapon, the read of
\* self.weapon.damage_bonus, an attribute Weapon does not have, raises
\* AttributeError before anything is printed; without one the four lines
\* are printed and None is returned.
display(self) ==
    IF self.weapon # NoWeapon
    THEN [self |-> self, ret |-> <<"AttributeError">>, out |-> <<>>]
    ELSE [self |-> self, ret |-> <<>>,
          out |-> << <<"Name", self.name>>, <<"Health", get_health(self)>>,
                     <<"Damage", self.damage>>, <<"Weapon", "No Weapon", 0>> >>]

(* ------------------------------------------------------------ GameLogger *)

\* GameLogger.__init__: `self.logs = []  # Store all log messages`.
GameLogger(log_to_console) == [log_to_console |-> log_to_console, logs |-> <<>>]

\* GameLogger.log: prints the message when log_to_console is set, and that
\* is all it does; r = [self, out, passed], the logger after the call, the
\* lines printed and the messages log was called with.
log(self, message) ==
    [self |-> self, out |-> IF self.log_to_console THEN <<message>> ELSE <<>>,
     passed |-> <<message>>]

\* The message of log_combat, without its wall-clock timestamp.
log_combat(self, attacker, defender, damage) ==
    log(self, <<"COMBAT LOG", attacker.name, defender.name, damage>>)

\* The message of log_level_up, without its wall-clock timestamp.
log_level_up(self, character) ==
    log(self, <<"LEVEL UP", character.name, character.level>>)

get_logs(self) == self.logs

\* logger.log called on each of the messages in turn.
RECURSIVE LogAll(_, _)
LogAll(r, messages) ==
    IF messages = <<>> THEN r
    ELSE LET l == log(r.self, Head(messages))
         IN  LogAll([self |-> l.self, out |-> r.out \o l.out,
                     passed |-> r.passed \o l.passed], Tail(messages))

\* No call of log at all.
NoLog(self) == [self |-> self, out |-> <<>>, passed |-> <<>>]

(* ------------------------------------------------------------ the driver *)

\* Arguments the driver passes.
HealthArgs == {-5, 0, 85}
Amounts == {-10, 50, 250}

Max(a, b) == IF a >= b THEN a ELSE b

\* The record of the most recent call: the method, its receiver and
\* arguments, what it returned (<<>> for None, the exception's name when it
\* raised one), the lines it printed and the objects as they were before the
\* call.
Call(op, self, enemy, arg, item, logger, ret, out) ==
    [op |-> op, self |-> self, enemy |-> enemy, arg |-> arg, item |-> item,
     logger |-> logger, ret |-> ret, out |-> out, pre |-> characters]

NoCall ==
    [op |-> None, self |-> None, enemy |-> None, arg |-> 0, item |-> None,
     logger |-> FALSE, ret |-> <<>>, out |-> <<>>, pre |-> characters]

\* The constructor calls of the driver.  Character.__init__ validates
\* nothing, so besides the characters of the tests (health >= 0, level 1,
\* 0 <= experience < LEVEL_UP_EXP) it builds characters with negative health
\* or damage, a level below 1 and experience outside 0..99.
TestHero == Character("Test Character", 100, 10, Str("Test Sword"), 5, 1, 0, 10)
HalfwayHero == Character("hero", 100, 10, Absent, 0, 1, 50, 1)
VeteranHero == Character("hero", 100, 10, Str("Test Sword"), 5, 1, 150, 2)
CursedHero == Character("hero", -5, -10, Str("Cursed Sword"), 5, 0, -50, 1)
IndebtedHero == Character("hero", 100, 0, Absent, 0, 1, -50, 1)

WeakEnemy == Character("enemy", 15, 20, Absent, 0, 1, 0, 1)
TestEnemy == Character("Test Enemy", 150, 10, Absent, 0, 1, 0, 10)
EliteEnemy == Character("enemy", 15, 20, Absent, 0, 3, 250, 1)
DeadEnemy == Character("enemy", 0, 10, Str("Twig"), -15, 1, 0, 1)

Scenarios ==
    { <<TestHero, WeakEnemy>>, <<HalfwayHero, TestEnemy>>,
      <<VeteranHero, EliteEnemy>>, <<CursedHero, DeadEnemy>>,
      <<CursedHero, WeakEnemy>>, <<IndebtedHero, DeadEnemy>> }

Init ==
    /\ \E s \in Scenarios :
          characters = [n \in Names |-> IF n = "hero" THEN s[1] ELSE s[2]]
    /\ constructed = characters
    /\ last = NoCall
    /\ steps = 0
    /\ gamelogger = GameLogger(TRUE)
    /\ logged = <<>>

GetHealth(c) ==
    /\ steps < MaxSteps
    /\ steps' = steps + 1
    /\ UNCHANGED <<constructed, gamelogger, logged>>
    /\ characters' = characters
    /\ last' = Call("get_health", c, None, 0, None, FALSE,
                    <<get_health(characters[c])>>, <<>>)

SetHealth(c, new_health) ==
    /\ steps < MaxSteps
    /\ steps' = steps + 1
    /\ UNCHANGED <<constructed, gamelogger, logged>>
    /\ characters' = [characters EXCEPT ![c] = set_health(@, new_health)]
    /\ last' = Call("set_health", c, None, new_health, None, FALSE, <<>>, <<>>)

\* A call that logs is given a GameLogger() of its own, as in the tests.
Attack(c, e, logger) ==
    /\ steps < MaxSteps
    /\ steps' = steps + 1
    /\ UNCHANGED <<constructed, gamelogger, logged>>
    /\ LET r == attack(characters, c, e, logger)
       IN  /\ characters' = r.characters
           /\ last' = Call("attack", c, e, 0, None, logger, r.ret, r.out)

GainExperience(c, amount, logger) ==
    /\ steps < MaxSteps
    /\ steps' = steps + 1
    /\ UNCHANGED <<constructed, gamelogger, logged>>
    /\ LET r == gain_experience(characters[c], amount, logger)
       IN  /\ characters' = [characters EXCEPT ![c] = r.self]
           /\ last' = Call("gain_experience", c, None, amount, None, logger,
                           <<r.ret>>, r.out)

Display(c) ==
    /\ steps < MaxSteps
    /\ steps' = steps + 1
    /\ UNCHANGED <<constructed, gamelogger, logged>>
    /\ LET r == display(characters[c])
       IN  /\ characters' = [characters EXCEPT ![c] = r.self]
           /\ last' = Call("display", c, None, 0, None, FALSE, r.ret, r.out)

\* A call of one of the Inventory methods on characters[c].inventory.
InventoryCall(c, op, item, r) ==
    /\ steps < MaxSteps
    /\ steps' = steps + 1
    /\ UNCHANGED <<constructed, gamelogger, logged>>
    /\ characters' = [characters EXCEPT ![c].inventory = r.inv]
    /\ last' = Call(op, c, None, 0, item, FALSE, <<r.ret>>, <<>>)

AddItem(c, item) ==
    InventoryCall(c, "add_item", item, add_item(characters[c].inventory, item))

RemoveItem(c, item) ==
    InventoryCall(c, "remove_item", item, remove_item(characters[c].inventory, item))

EquipWeapon(c, weapon) ==
    InventoryCall(c, "equip_weapon", weapon, equip_weapon(characters[c].inventory, weapon))

EquipArmor(c, armor) ==
    InventoryCall(c, "equip_armor", armor, equip_armor(characters[c].inventory, armor))

UseConsumable(c, consumable) ==
    InventoryCall(c, "use_consumable", consumable,
                  use_consumable(characters[c].inventory, consumable))

Next ==
    \/ \E c \in Names : GetHealth(c)
    \/ \E c \in Names, h \in HealthArgs : SetHealth(c, h)
    \/ \E c \in Names, e \in Names, lg \in BOOLEAN : Attack(c, e, lg)
    \/ \E c \in Names, a \in Amounts, lg \in BOOLEAN : GainExperience(c, a, lg)
    \/ \E c \in Names, i \in Items : AddItem(c, i)
    \/ \E c \in Names, i \in Items : RemoveItem(c, i)
    \/ \E c \in Names : EquipWeapon(c, "sword")
    \/ \E c \in Names : EquipArmor(c, "armor")
    \/ \E c \in Names : UseConsumable(c, "potion")
    \/ \E c \in Names : Display(c)

Spec == Init /\ [][Next]_vars

(* -------------------------------------------- the driver of the inventory *)

\* A driver that takes the inventory of the test character and calls its
\* methods, as test_inventory does, handing over an item any number of times
\* and giving use_consumable any item (the code tests no item type).
InventoryInit ==
    /\ characters = [n \in Names |-> IF n = "hero" THEN TestHero ELSE TestEnemy]
    /\ constructed = characters
    /\ last = NoCall
    /\ steps = 0
    /\ gamelogger = GameLogger(TRUE)
    /\ logged = <<>>

\* A call of one of the Inventory methods on self.character.inventory.
TestInventoryCall(op, item, r) ==
    /\ steps < MaxInventorySteps
    /\ steps' = steps + 1
    /\ UNCHANGED <<constructed, gamelogger, logged>>
    /\ characters' = [characters EXCEPT !["hero"].inventory = r.inv]
    /\ last' = Call(op, "hero", None, 0, item, FALSE, <<r.ret>>, <<>>)

TestAddItem(item) ==
    TestInventoryCall("add_item", item, add_item(characters["hero"].inventory, item))

TestRemoveItem(item) ==
    TestInventoryCall("remove_item", item, remove_item(characters["hero"].inventory, item))

TestEquipWeapon(weapon) ==
    TestInventoryCall("equip_weapon", weapon,
                      equip_weapon(characters["hero"].inventory, weapon))

TestEquipArmor(armor) ==
    TestInventoryCall("equip_armor", armor,
                      equip_armor(characters["hero"].inventory, armor))

TestUseConsumable(consumable) ==
    TestInventoryCall("use_consumable", consumable,
                      use_consumable(characters["hero"].inventory, consumable))

InventoryNext ==
    \/ \E i \in Items : TestAddItem(i)
    \/ \E i \in Items : TestRemoveItem(i)
    \/ TestEquipWeapon("sword")
    \/ TestEquipArmor("armor")
    \/ \E i \in Items : TestUseConsumable(i)

InventorySpec == InventoryInit /\ [][InventoryNext]_vars

(* ----------------------------------------------- the driver of the logger *)

\* A driver that keeps one GameLogger, calls its methods directly and passes
\* it to attack and gain_experience.
Messages == {<<"Game started">>, <<"Game over">>}
CombatDamages == {-5, 15}

LoggerInit ==
    /\ characters = [n \in Names |-> IF n = "hero" THEN TestHero ELSE WeakEnemy]
    /\ constructed = characters
    /\ last = NoCall
    /\ steps = 0
    /\ \E log_to_console \in BOOLEAN : gamelogger = GameLogger(log_to_console)
    /\ logged = <<>>

\* A call that involves gamelogger: r is what it does to the logger.
LoggerCall(op, c, e, arg, ret, r) ==
    /\ steps < MaxSteps
    /\ steps' = steps + 1
    /\ UNCHANGED constructed
    /\ gamelogger' = r.self
    /\ logged' = logged \o r.passed
    /\ last' = Call(op, c, e, arg, None, TRUE, ret, r.out)

LogMessage(message) ==
    /\ LoggerCall("log", None, None, 0, <<>>, log(gamelogger, message))
    /\ UNCHANGED characters

LogCombat(c, e, damage) ==
    /\ LoggerCall("log_combat", c, e, damage, <<>>,
                  log_combat(gamelogger, characters[c], characters[e], damage))
    /\ UNCHANGED characters

LogLevelUp(c) ==
    /\ LoggerCall("log_level_up", c, None, 0, <<>>,
                  log_level_up(gamelogger, characters[c]))
    /\ UNCHANGED characters

GetLogs ==
    /\ LoggerCall("get_logs", None, None, 0, <<get_logs(gamelogger)>>,
                  NoLog(gamelogger))
    /\ UNCHANGED characters

\* attack and gain_experience with gamelogger as their logger: the messages
\* they pass to its log method are the lines a printing logger prints.
AttackLogging(c, e) ==
    LET r == attack(characters, c, e, TRUE)
    IN  /\ LoggerCall("attack", c, e, 0, r.ret, LogAll(NoLog(gamelogger), r.out))
        /\ characters' = r.characters

GainExperienceLogging(c, amount) ==
    LET r == gain_experience(characters[c], amount, TRUE)
    IN  /\ LoggerCall("gain_experience", c, None, amount, <<r.ret>>,
                      LogAll(NoLog(gamelogger), r.out))
        /\ characters' = [characters EXCEPT ![c] = r.self]

LoggerNext ==
    \/ \E m \in Messages : LogMessage(m)
    \/ \E c \in Names, e \in Names, d \in CombatDamages : LogCombat(c, e, d)
    \/ \E c \in Names : LogLevelUp(c)
    \/ GetLogs
    \/ \E c \in Names, e \in Names : AttackLogging(c, e)
    \/ \E c \in Names, a \in Amounts : GainExperienceLogging(c, a)

LoggerSpec == LoggerInit /\ [][LoggerNext]_vars

(* ------------------------------------------------------------ the claims *)

\* The characters a call was made on, before and after it.
Self == characters[last.self]
PreSelf == last.pre[last.self]
Enemy == characters[last.enemy]
PreEnemy == last.pre[last.enemy]

\* C1. Clamping: set_health(h) followed by get_health() on the same character
\* yields max(h, 0); right after set_health(h) the health read by get_health
\* is max(h, 0); and get_health returns the stored health and changes nothing.
C1_Clamping ==
    /\ [](last.op = "set_health" => get_health(Self) = Max(last.arg, 0))
    /\ [](last.op = "get_health" =>
             last.ret = <<last.pre[last.self].health>> /\ characters = last.pre)
    /\ [][(last.op = "set_health" /\ last'.op = "get_health"
           /\ last'.self = last.self)
          => (last'.ret = <<Max(last.arg, 0)>> /\ characters' = characters)]_vars

\* A negative health was asked for and the character, alive before, reads 0.
C1_Witness ==
    /\ last.op = "set_health"
    /\ last.arg < 0
    /\ PreSelf.health > 0
    /\ get_health(Self) = 0

\* C2. Health is never negative: a character constructed with health >= 0
\* has get_health() >= 0 in every state reached through set_health, attack
\* (either role, any damage) and gain_experience, level-ups included.
C2_HealthNeverNegative ==
    \A c \in Names :
        constructed[c].health >= 0 => get_health(characters[c]) >= 0

\* An attack overkilled a defender constructed with health >= 0 (clamped to
\* 0), and the attacker, also constructed with health >= 0, levelled up, its
\* health written by the level-up loop.
C2_Witness ==
    /\ last.op = "attack"
    /\ constructed[last.enemy].health >= 0
    /\ constructed[last.self].health >= 0
    /\ PreEnemy.health - last.ret[1] < 0
    /\ get_health(Enemy) = 0
    /\ Self.level > PreSelf.level
    /\ get_health(Self) > get_health(PreSelf)

\* C3. Experience bound: a character constructed with 0 <= experience < 100
\* has 0 <= experience < 100 after every completed call (gain_experience with
\* any amount, attack with or without a kill, and every other method).
C3_ExperienceBound ==
    \A c \in Names :
        (0 <= constructed[c].experience /\ constructed[c].experience < LEVEL_UP_EXP)
            => (0 <= characters[c].experience /\ characters[c].experience < LEVEL_UP_EXP)

\* A character constructed within the bound reached exactly LEVEL_UP_EXP
\* inside a call (50 + 50, or a kill from 0) and ended the call at 0.
C3_Witness ==
    /\ last.op \in {"gain_experience", "attack"}
    /\ 0 <= constructed[last.self].experience
    /\ constructed[last.self].experience < LEVEL_UP_EXP
    /\ Self.level = PreSelf.level + 1
    /\ Self.experience = 0

\* C4 as stated: 0 <= experience < 100 after any call of gain_experience, for
\* every character (whatever the constructor was given) and every amount.
C4_Original ==
    last.op = "gain_experience"
        => (0 <= Self.experience /\ Self.experience < LEVEL_UP_EXP)

\* C4, amended. After gain_experience(amount) with amount >= 0 on a character
\* with experience + amount >= 0, 0 <= experience < 100 holds, whatever level
\* and experience the constructor was given; otherwise (a negative amount,
\* which is rejected, or a sum that stays negative) the call does not bring
\* experience into the range: a rejected call leaves it as it was.
C4_PostCondition ==
    last.op = "gain_experience" =>
        /\ (last.arg >= 0 /\ PreSelf.experience + last.arg >= 0)
               => (0 <= Self.experience /\ Self.experience < LEVEL_UP_EXP)
        /\ last.arg < 0 => Self.experience = PreSelf.experience
        /\ (last.arg >= 0 /\ PreSelf.experience + last.arg < 0)
               => Self.experience = PreSelf.experience + last.arg

\* A character constructed with experience >= 100 gained a non-negative
\* amount that took several level-ups to bring back below 100.
C4_Witness ==
    /\ last.op = "gain_experience"
    /\ last.arg >= 0
    /\ PreSelf.experience >= LEVEL_UP_EXP
    /\ Self.level >= PreSelf.level + 2
    /\ 0 <= Self.experience /\ Self.experience < LEVEL_UP_EXP

\* C5. Experience carry-over: gain_experience(a) with a >= 0 on a character
\* with experience e >= 0 and level l ends with level = l + (e + a) div 100
\* and experience = (e + a) mod 100, so 100*level + experience grows by a.
C5_CarryOver ==
    (last.op = "gain_experience" /\ last.arg >= 0 /\ PreSelf.experience >= 0) =>
        LET total == PreSelf.experience + last.arg
        IN  /\ Self.level = PreSelf.level + (total \div LEVEL_UP_EXP)
            /\ Self.experience = total % LEVEL_UP_EXP
            /\ LEVEL_UP_EXP * Self.level + Self.experience
                   = LEVEL_UP_EXP * PreSelf.level + PreSelf.experience + last.arg

\* 250 gained from experience 0: two levels and 50 left over.
C5_Witness ==
    /\ last.op = "gain_experience"
    /\ last.arg = 250
    /\ PreSelf.experience = 0
    /\ Self.level = PreSelf.level + 2
    /\ Self.experience = 50

\* floor(x * 6/5), and its k-fold application.
Floor65(x) == (x * 6) \div 5
RECURSIVE Compound(_, _)
Compound(x, k) == IF k <= 0 THEN x ELSE Compound(Floor65(x), k - 1)

\* x * 6/5 rounded toward zero, and its k-fold application.
Trunc65(x) == IF x >= 0 THEN Floor65(x) ELSE -Floor65(-x)
RECURSIVE CompoundTrunc(_, _)
CompoundTrunc(x, k) == IF k <= 0 THEN x ELSE CompoundTrunc(Trunc65(x), k - 1)

\* C6 as stated: a gain_experience call that causes k level-ups applies
\* x -> floor(x * 6/5) k times in succession to health and, separately, to
\* damage; from level 1, health 100, damage 10, experience 0,
\* gain_experience(250) yields level 3, experience 50, health 144, damage 14.
C6_Original ==
    (last.op = "gain_experience" /\ last.arg >= 0) =>
        /\ Self.health = Compound(PreSelf.health, Self.level - PreSelf.level)
        /\ Self.damage = Compound(PreSelf.damage, Self.level - PreSelf.level)
        /\ (/\ PreSelf.level = 1 /\ PreSelf.health = 100 /\ PreSelf.damage = 10
            /\ PreSelf.experience = 0 /\ last.arg = 250) =>
              (/\ Self.level = 3 /\ Self.experience = 50
               /\ Self.health = 144 /\ Self.damage = 14)

\* C6, amended. A gain_experience call that causes k level-ups applies
\* x -> int(x * 6/5), the product rounded toward zero, k times in succession
\* to health and, separately, to damage; for a health or a damage that is
\* >= 0 that is floor(x * 6/5) applied k times; from level 1, health 100,
\* damage 10, experience 0, gain_experience(250) yields level 3, experience
\* 50, health 144, damage 14.
C6_Compounding ==
    (last.op = "gain_experience" /\ last.arg >= 0) =>
        /\ Self.health = CompoundTrunc(PreSelf.health, Self.level - PreSelf.level)
        /\ Self.damage = CompoundTrunc(PreSelf.damage, Self.level - PreSelf.level)
        /\ PreSelf.health >= 0 =>
              Self.health = Compound(PreSelf.health, Self.level - PreSelf.level)
        /\ PreSelf.damage >= 0 =>
              Self.damage = Compound(PreSelf.damage, Self.level - PreSelf.level)
        /\ (/\ PreSelf.level = 1 /\ PreSelf.health = 100 /\ PreSelf.damage = 10
            /\ PreSelf.experience = 0 /\ last.arg = 250) =>
              (/\ Self.level = 3 /\ Self.experience = 50
               /\ Self.health = 144 /\ Self.damage = 14)

\* The example of the spec: 100/10 at level 1 became 144/14 at level 3.
C6_Witness ==
    /\ last.op = "gain_experience"
    /\ last.arg = 250
    /\ PreSelf.level = 1 /\ PreSelf.health = 100 /\ PreSelf.damage = 10
    /\ PreSelf.experience = 0
    /\ Self.level = 3 /\ Self.experience = 50
    /\ Self.health = 144 /\ Self.damage = 14

\* C7. Negative rejection: gain_experience(amount) with amount < 0 returns
\* false and leaves experience, level, health and damage (and everything
\* else) unchanged.
C7_NegativeRejection ==
    (last.op = "gain_experience" /\ last.arg < 0) =>
        /\ last.ret = <<FALSE>>
        /\ Self.experience = PreSelf.experience
        /\ Self.level = PreSelf.level
        /\ Self.health = PreSelf.health
        /\ Self.damage = PreSelf.damage
        /\ characters = last.pre

\* A negative amount was offered to a character that holds experience, which
\* it kept.
C7_Witness ==
    /\ last.op = "gain_experience"
    /\ last.arg < 0
    /\ last.ret = <<FALSE>>
    /\ PreSelf.experience > 0
    /\ Self.experience = PreSelf.experience

\* attacker.damage + weapon damage, of the attacker as it was before the call.
TotalDamage(c) ==
    c.damage + (IF c.weapon # NoWeapon THEN c.weapon.damage ELSE 0)

\* C8. Kill awards fixed XP: whenever an attack leaves the defender at health
\* <= 0, attack returns (attacker.damage + weapon damage, true), the
\* defender's health is 0 and the attacker's 100*level + experience has grown
\* by exactly 100, whatever the overkill and the defender's level.
C8_KillAwardsFixedXP ==
    (last.op = "attack" /\ get_health(Enemy) <= 0) =>
        /\ last.ret = <<TotalDamage(PreSelf), TRUE>>
        /\ get_health(Enemy) = 0
        /\ LEVEL_UP_EXP * Self.level + Self.experience
               = LEVEL_UP_EXP * PreSelf.level + PreSelf.experience + 100
        /\ (PreSelf.experience >= 0) =>
              /\ Self.level = PreSelf.level + ((PreSelf.experience + 100) \div 100)
              /\ Self.experience = (PreSelf.experience + 100) % 100

\* A kill with overkill (damage above the defender's health, itself above 0)
\* of a defender above level 1.
C8_Witness ==
    /\ last.op = "attack"
    /\ last.ret[2] = TRUE
    /\ PreEnemy.health > 0
    /\ last.ret[1] > PreEnemy.health
    /\ PreEnemy.level > 1
    /\ get_health(Enemy) = 0

\* C9. As the test asserts: after the attack by which an attacker at level
\* 1 with experience 0 defeats an enemy, the attacker's experience is
\* LEVEL_UP_EXP and its level is still 1 (the experience of a single kill is
\* stored and does not by itself trigger a level-up).
C9_Original ==
    (/\ last.op = "attack" /\ last.ret[2] = TRUE
     /\ PreSelf.level = 1 /\ PreSelf.experience = 0) =>
        (Self.experience = LEVEL_UP_EXP /\ Self.level = 1)

\* C10 as stated: when the defender's health minus the total damage is > 0,
\* attack returns (total_damage, false), the defender's health becomes
\* exactly old health - total_damage, the attacker's experience, level,
\* health and damage are unchanged, and so are the defender's level,
\* experience and damage and both inventories.
C10_Original ==
    (last.op = "attack" /\ PreEnemy.health - TotalDamage(PreSelf) > 0) =>
        /\ last.ret = <<TotalDamage(PreSelf), FALSE>>
        /\ get_health(Enemy) = PreEnemy.health - TotalDamage(PreSelf)
        /\ Self.experience = PreSelf.experience
        /\ Self.level = PreSelf.level
        /\ Self.health = PreSelf.health
        /\ Self.damage = PreSelf.damage
        /\ Enemy.level = PreEnemy.level
        /\ Enemy.experience = PreEnemy.experience
        /\ Enemy.damage = PreEnemy.damage
        /\ Self.inventory = PreSelf.inventory
        /\ Enemy.inventory = PreEnemy.inventory

\* C10, amended. When the defender's health minus the total damage is > 0,
\* attack returns (total_damage, false) and the defender's health becomes
\* exactly old health - total_damage; nothing else changes: the attacker's
\* experience, level and damage, the defender's level, experience and
\* damage and both inventories are as before, and so is the attacker's
\* health when attacker and defender are two objects.  A character that
\* attacks itself is its own defender and its health is lowered.
C10_AttackWithoutKill ==
    (last.op = "attack" /\ PreEnemy.health - TotalDamage(PreSelf) > 0) =>
        /\ last.ret = <<TotalDamage(PreSelf), FALSE>>
        /\ get_health(Enemy) = PreEnemy.health - TotalDamage(PreSelf)
        /\ Self.experience = PreSelf.experience
        /\ Self.level = PreSelf.level
        /\ Self.damage = PreSelf.damage
        /\ last.self # last.enemy => (Self.health = PreSelf.health /\ Self = PreSelf)
        /\ last.self = last.enemy =>
              Self.health = PreSelf.health - TotalDamage(PreSelf)
        /\ characters = [last.pre EXCEPT ![last.enemy].health =
                                             PreEnemy.health - TotalDamage(PreSelf)]

\* A hit that took health off another character, who survived it, both
\* characters holding an item at the time.
C10_Witness ==
    /\ last.op = "attack"
    /\ last.self # last.enemy
    /\ last.ret[2] = FALSE
    /\ last.ret[1] > 0
    /\ get_health(Enemy) = PreEnemy.health - last.ret[1]
    /\ Self = PreSelf
    /\ Len(PreSelf.inventory.items) > 0
    /\ Len(PreEnemy.inventory.items) > 0

(* ------------------------------------------- the claims on the Inventory *)

\* The inventory a call was made on, before and after it.
Inv == Self.inventory
PreInv == PreSelf.inventory

InventoryOps ==
    {"add_item", "remove_item", "equip_weapon", "equip_armor", "use_consumable"}

\* C11. Inventory capacity: add_item returns false and changes nothing when
\* the held count is >= max_size, otherwise it appends the item and returns
\* true; so held count <= max_size in every state reached by add_item,
\* remove_item, equip_weapon, equip_armor and use_consumable (a duplicate of
\* a held item counts separately).
C11_InventoryCapacity ==
    /\ \A c \in Names :
          Len(characters[c].inventory.items) <= characters[c].inventory.max_size
    /\ last.op = "add_item" =>
          IF Len(PreInv.items) >= PreInv.max_size
          THEN last.ret = <<FALSE>> /\ characters = last.pre
          ELSE /\ last.ret = <<TRUE>>
               /\ Inv.items = PreInv.items \o <<last.item>>
               /\ characters = [last.pre EXCEPT
                      ![last.self].inventory.items = PreInv.items \o <<last.item>>]

\* A full inventory of two, holding the same item twice, refused a third.
C11_Witness ==
    /\ last.op = "add_item"
    /\ last.ret = <<FALSE>>
    /\ PreInv.max_size = 2
    /\ PreInv.items = <<last.item, last.item>>
    /\ Inv.items = PreInv.items

\* `x is None or x in items`, for an equipped slot.
NullOrHeld(inv, x) == x = None \/ Held(inv, x)

\* C12. Equipped-slot invariant: in every state reached by add_item,
\* remove_item, equip_weapon, equip_armor and use_consumable, equipped_weapon
\* and equipped_armor are each null or an element of the held items.
C12_EquippedSlotInvariant ==
    \A c \in Names :
        /\ NullOrHeld(characters[c].inventory, characters[c].inventory.equipped_weapon)
        /\ NullOrHeld(characters[c].inventory, characters[c].inventory.equipped_armor)

\* C13. Equip requires holding: equip_weapon(w) (equip_armor(a)) returns true
\* and sets equipped_weapon (equipped_armor) to the item exactly when the
\* item is held; otherwise it returns false and leaves both slots and the
\* held items unchanged.  A successful equip changes neither the held items
\* nor the other slot.
C13_EquipRequiresHolding ==
    /\ last.op = "equip_weapon" =>
          IF Held(PreInv, last.item)
          THEN /\ last.ret = <<TRUE>>
               /\ characters = [last.pre EXCEPT
                      ![last.self].inventory.equipped_weapon = last.item]
          ELSE last.ret = <<FALSE>> /\ characters = last.pre
    /\ last.op = "equip_armor" =>
          IF Held(PreInv, last.item)
          THEN /\ last.ret = <<TRUE>>
               /\ characters = [last.pre EXCEPT
                      ![last.self].inventory.equipped_armor = last.item]
          ELSE last.ret = <<FALSE>> /\ characters = last.pre
    /\ last.op \in {"equip_weapon", "equip_armor"} =>
          /\ Inv.items = PreInv.items
          /\ last.op = "equip_weapon" => Inv.equipped_armor = PreInv.equipped_armor
          /\ last.op = "equip_armor" => Inv.equipped_weapon = PreInv.equipped_weapon
          /\ last.ret = <<FALSE>> =>
                /\ Inv.equipped_weapon = PreInv.equipped_weapon
                /\ Inv.equipped_armor = PreInv.equipped_armor

\* equip_weapon of a weapon that was never added returned false and the
\* slot stayed null, in an inventory that holds something else.
C13_Witness ==
    /\ last.op = "equip_weapon"
    /\ ~Held(PreInv, last.item)
    /\ Len(PreInv.items) > 0
    /\ last.ret = <<FALSE>>
    /\ Inv.equipped_weapon = None

(* ------------------------------------------------- the claims, continued *)

\* What the most recent attack or gain_experience call does when it is made
\* on the same objects with the logger argument flipped (given instead of
\* absent, absent instead of given): the characters after it and its result.
OtherRun ==
    IF last.op = "attack"
    THEN attack(last.pre, last.self, last.enemy, ~last.logger)
    ELSE LET r == gain_experience(PreSelf, last.arg, ~last.logger)
         IN  [characters |-> [last.pre EXCEPT ![last.self] = r.self],
              ret |-> <<r.ret>>, out |-> r.out]

\* C14. Logger independence: an attack or gain_experience call returns the
\* same value and leaves every character in the same state (health, damage,
\* level, experience and all the rest) whether or not a logger is supplied;
\* only the printed lines differ.  Step by step this gives identical return
\* values and final states for every sequence of such calls.
C14_LoggerIndependence ==
    last.op \in {"attack", "gain_experience"} =>
        /\ OtherRun.characters = characters
        /\ OtherRun.ret = last.ret
        /\ \A c \in Names :
              /\ OtherRun.characters[c].health = characters[c].health
              /\ OtherRun.characters[c].damage = characters[c].damage
              /\ OtherRun.characters[c].level = characters[c].level
              /\ OtherRun.characters[c].experience = characters[c].experience
        /\ last.logger => OtherRun.out = <<>>

\* A logged attack that killed and levelled the attacker up printed its
\* lines; the same attack without a logger prints nothing.
C14_Witness ==
    /\ last.op = "attack"
    /\ last.logger
    /\ last.ret[2] = TRUE
    /\ Self.level > PreSelf.level
    /\ Len(last.out) >= 7
    /\ OtherRun.out = <<>>

\* C15. gain_experience returns true if and only if the character's level
\* after the call is greater than before it; a call with amount >= 0 that
\* does not bring experience to 100 or more returns false and changes only
\* experience.
C15_ReturnsLeveledUp ==
    last.op = "gain_experience" =>
        /\ last.ret = <<Self.level > PreSelf.level>>
        /\ Self.level >= PreSelf.level
        /\ (last.arg >= 0 /\ PreSelf.experience + last.arg < LEVEL_UP_EXP) =>
              /\ last.ret = <<FALSE>>
              /\ characters = [last.pre EXCEPT ![last.self].experience =
                                                   PreSelf.experience + last.arg]

\* 50 gained at experience 50: true is returned and the level went up by one.
C15_Witness ==
    /\ last.op = "gain_experience"
    /\ last.arg = 50
    /\ PreSelf.experience = 50
    /\ last.ret = <<TRUE>>
    /\ Self.level = PreSelf.level + 1

\* C16. Attack result: attack returns total_damage = attacker.damage +
\* (weapon damage if the attacker has a weapon, else 0), not the health the
\* defender lost, and the defeated flag, read after clamping, equals
\* (defender's health before the attack - total_damage <= 0).
C16_AttackResult ==
    last.op = "attack" =>
        /\ last.ret[1] = PreSelf.damage
                           + (IF PreSelf.weapon # NoWeapon
                              THEN PreSelf.weapon.damage ELSE 0)
        /\ last.ret[2] = (PreEnemy.health - last.ret[1] <= 0)
        /\ last.ret[2] = (get_health(Enemy) <= 0)
        /\ Len(last.ret) = 2

\* An attacker with a weapon dealt more than the defender had left: the full
\* total is returned although the defender lost less.
C16_Witness ==
    /\ last.op = "attack"
    /\ PreSelf.weapon # NoWeapon
    /\ last.ret[1] = PreSelf.damage + PreSelf.weapon.damage
    /\ PreEnemy.health > 0
    /\ PreEnemy.health - get_health(Enemy) < last.ret[1]
    /\ last.ret[2] = TRUE

\* Level-ups made by the most recent call, on the character that made it.
LeveledUp ==
    /\ last.op \in {"gain_experience", "attack"}
    /\ Self.level > PreSelf.level
LevelUps == Self.level - PreSelf.level

\* The character as the first level-up iteration of that call found it: as
\* before the call for gain_experience, and after the hit for an attack
\* (which matters when the attacker is its own defender).
BeforeLevelUp ==
    IF last.op = "attack"
    THEN [last.pre EXCEPT ![last.enemy] =
             set_health(@, get_health(@) - TotalDamage(PreSelf))][last.self]
    ELSE PreSelf

\* C17 as stated: every level-up iteration makes health floor(health * 1.2)
\* and damage floor(damage * 1.2), for every integer, negative ones included.
C17_Original ==
    LeveledUp =>
        /\ Self.health = Compound(BeforeLevelUp.health, LevelUps)
        /\ Self.damage = Compound(BeforeLevelUp.damage, LevelUps)

\* C17, amended. Every level-up iteration makes health int(health * 1.2) and
\* damage int(damage * 1.2), the product rounded toward zero: that is
\* floor(x * 1.2) for x >= 0 and ceiling(x * 1.2) for x < 0.
C17_GrowthTruncates ==
    LeveledUp =>
        /\ Self.health = CompoundTrunc(BeforeLevelUp.health, LevelUps)
        /\ Self.damage = CompoundTrunc(BeforeLevelUp.damage, LevelUps)
        /\ BeforeLevelUp.health >= 0 =>
              Self.health = Compound(BeforeLevelUp.health, LevelUps)
        /\ BeforeLevelUp.damage >= 0 =>
              Self.damage = Compound(BeforeLevelUp.damage, LevelUps)

\* Two level-ups took a damage of -10 to -12 and then to -14 (-14.4 rounded
\* toward zero; its floor is -15).
C17_Witness ==
    /\ last.op = "gain_experience"
    /\ LevelUps = 2
    /\ PreSelf.damage = -10
    /\ Self.damage = -14
    /\ Compound(PreSelf.damage, 2) = -15

\* C18 as stated: whenever a gain_experience call or a kill levels the
\* character up, its health and its damage are both strictly greater after
\* the call than before it.
C18_Original ==
    LeveledUp => (Self.health > PreSelf.health /\ Self.damage > PreSelf.damage)

\* How one stat has changed over the level-ups of a call: strictly greater
\* when it was >= 5, unchanged when it was 0..4, not greater when negative.
StatChange(before, after) ==
    /\ before >= 5 => after > before
    /\ (0 <= before /\ before <= 4) => after = before
    /\ before < 0 => after <= before

\* C18, amended. Whenever a gain_experience call or a kill levels the
\* character up, a stat (health, damage) that was >= 5 when the level-up
\* began is strictly greater after the call, a stat of 0..4 is unchanged
\* (int(x * 1.2) = x) and a negative stat does not increase.  The level-up
\* begins with the stats of before the call, except for the health of a
\* character that has attacked itself, which is what its own hit left (0).
C18_LevelUpRaisesStats ==
    LeveledUp =>
        /\ StatChange(BeforeLevelUp.health, Self.health)
        /\ StatChange(BeforeLevelUp.damage, Self.damage)
        /\ BeforeLevelUp.damage = PreSelf.damage
        /\ BeforeLevelUp.health =
              IF last.op = "attack" /\ last.self = last.enemy THEN 0
              ELSE PreSelf.health

\* A character at health 0 levelled up: damage grew, health stayed 0.
C18_Witness ==
    /\ LeveledUp
    /\ PreSelf.health = 0
    /\ Self.health = 0
    /\ PreSelf.damage >= 5
    /\ Self.damage > PreSelf.damage

\* A character with everything but its inventory, which is emptied.
WithoutInventory(c) == [c EXCEPT !.inventory = Inventory(c.inventory.max_size)]

\* C19. Combat ignores the inventory: the damage dealt by attack depends
\* only on the attacker's damage field and its own weapon attribute.  An
\* attack between characters that hold and have equipped items returns what
\* the same attack returns with both inventories empty and has the same
\* effect on both characters, no Inventory call changes anything of a
\* character but its inventory, and attack leaves both inventories as they
\* were.
C19_CombatIgnoresInventory ==
    /\ last.op = "attack" =>
          LET bare == attack([n \in Names |-> WithoutInventory(last.pre[n])],
                             last.self, last.enemy, last.logger)
          IN  /\ last.ret = bare.ret
              /\ last.ret[1] = TotalDamage(PreSelf)
              /\ \A n \in Names :
                    WithoutInventory(characters[n]) = bare.characters[n]
              /\ Self.inventory = PreSelf.inventory
              /\ Enemy.inventory = PreEnemy.inventory
    /\ last.op \in InventoryOps =>
          characters = [last.pre EXCEPT ![last.self].inventory = Inv]

\* An attack by a character whose inventory has the sword equipped, a weapon
\* that is not the character's own.
C19_Witness ==
    /\ last.op = "attack"
    /\ PreSelf.inventory.equipped_weapon = "sword"
    /\ Held(PreSelf.inventory, "sword")
    /\ last.ret[1] = PreSelf.damage + WeaponDamage(PreSelf)

\* items without its first occurrence of item (items itself when there is
\* none).
WithoutFirst(items, item) ==
    IF \E i \in 1..Len(items) : items[i] = item
    THEN LET first == CHOOSE i \in 1..Len(items) :
                          /\ items[i] = item
                          /\ \A j \in 1..(i - 1) : items[j] # item
         IN  SubSeq(items, 1, first - 1) \o SubSeq(items, first + 1, Len(items))
    ELSE items

\* C20. remove_item and use_consumable: when the item is held the call
\* returns true and removes exactly its first occurrence (the count drops by
\* 1, the other items keep their order); when it is not held the call
\* returns false and changes nothing; the equipped slots are unchanged in
\* both cases, also when the removed item is the equipped one.
C20_RemoveBookkeeping ==
    last.op \in {"remove_item", "use_consumable"} =>
        /\ IF Held(PreInv, last.item)
           THEN /\ last.ret = <<TRUE>>
                /\ Inv.items = WithoutFirst(PreInv.items, last.item)
                /\ Len(Inv.items) = Len(PreInv.items) - 1
           ELSE last.ret = <<FALSE>> /\ characters = last.pre
        /\ Inv.equipped_weapon = PreInv.equipped_weapon
        /\ Inv.equipped_armor = PreInv.equipped_armor
        /\ characters = [last.pre EXCEPT ![last.self].inventory.items = Inv.items]

\* use_consumable took the first of two swords, held before and behind a
\* potion, while the sword was the equipped weapon: the potion and the second
\* sword are left in that order and the slot still holds the sword.
C20_Witness ==
    /\ last.op = "use_consumable"
    /\ last.item = "sword"
    /\ last.ret = <<TRUE>>
    /\ PreInv.items = <<"sword", "potion", "sword">>
    /\ PreInv.equipped_weapon = "sword"
    /\ Inv.items = <<"potion", "sword">>
    /\ Inv.equipped_weapon = "sword"

(* ------------------------------------------- the claims, misconfiguration *)

\* The most recent call is an attack whose total damage is negative.
NegativeAttack == last.op = "attack" /\ TotalDamage(PreSelf) < 0

\* C21 as stated: when attacker.damage + weapon damage is negative, attack
\* sets the defender's health to old health - total_damage, strictly greater
\* than before; for a defender whose health was >= 0 it returns defeated =
\* false and awards no experience.
C21_Original ==
    NegativeAttack =>
        /\ get_health(Enemy) = PreEnemy.health - TotalDamage(PreSelf)
        /\ get_health(Enemy) > PreEnemy.health
        /\ PreEnemy.health >= 0 =>
              /\ last.ret = <<TotalDamage(PreSelf), FALSE>>
              /\ Self.experience = PreSelf.experience
              /\ Self.level = PreSelf.level

\* C21, amended. When attacker.damage + weapon damage is negative, attack
\* sets the defender's health to max(old health - total_damage, 0), which is
\* strictly greater than before.  For a defender whose health was >= 0 that
\* is old health - total_damage itself, above 0 and with no upper cap, the
\* call returns defeated = false and the attacker is unchanged (no
\* experience).  For a defender whose health was negative and stays <= 0
\* after the subtraction, the health is clamped to 0, defeated = true is
\* returned and the attacker is awarded LEVEL_UP_EXP.
C21_NegativeDamageHeals ==
    NegativeAttack =>
        LET total_damage == TotalDamage(PreSelf)
            new_health == PreEnemy.health - total_damage
        IN  /\ get_health(Enemy) = Max(new_health, 0)
            /\ get_health(Enemy) > PreEnemy.health
            /\ last.self # last.enemy =>
                  Enemy = [PreEnemy EXCEPT !.health = Max(new_health, 0)]
            /\ PreEnemy.health >= 0 =>
                  /\ get_health(Enemy) = new_health
                  /\ get_health(Enemy) > 0
                  /\ last.ret = <<total_damage, FALSE>>
            /\ new_health > 0 =>
                  /\ last.ret = <<total_damage, FALSE>>
                  /\ Self.experience = PreSelf.experience
                  /\ Self.level = PreSelf.level
                  /\ characters = [last.pre EXCEPT ![last.enemy].health = new_health]
            /\ new_health <= 0 =>
                  /\ PreEnemy.health < 0
                  /\ get_health(Enemy) = 0
                  /\ last.ret = <<total_damage, TRUE>>
                  /\ LEVEL_UP_EXP * Self.level + Self.experience
                         = LEVEL_UP_EXP * PreSelf.level + PreSelf.experience
                           + LEVEL_UP_EXP

\* A defender at health 0 was attacked with negative total damage and is
\* back above 0, above the health it was constructed with; the attacker
\* gained nothing.
C21_Witness ==
    /\ NegativeAttack
    /\ last.self # last.enemy
    /\ PreEnemy.health = 0
    /\ get_health(Enemy) = -TotalDamage(PreSelf)
    /\ get_health(Enemy) > constructed[last.enemy].health
    /\ last.ret[2] = FALSE
    /\ Self = PreSelf

\* C22. GameLogger keeps its messages: after any sequence of log, log_combat
\* and log_level_up calls (made directly or by attack and gain_experience),
\* get_logs() returns all the messages passed to log, one entry per message,
\* in call order.
C22_LoggerKeepsMessages ==
    /\ get_logs(gamelogger) = logged
    /\ Len(get_logs(gamelogger)) = Len(logged)
    /\ last.op = "get_logs" => last.ret = <<logged>>

\* The most recent call is an attack with total damage >= 0 on a defender
\* whose health was already 0.
AttackOnDead ==
    /\ last.op = "attack"
    /\ TotalDamage(PreSelf) >= 0
    /\ PreEnemy.health = 0

\* 100 * level + experience: the experience a character has been awarded.
TotalXP(c) == LEVEL_UP_EXP * c.level + c.experience

\* C23 as stated: every attack call with total damage >= 0 on a defender at
\* health 0 returns defeated = true and gives the attacker 100 experience,
\* with a level-up each time.
C23_Original ==
    AttackOnDead =>
        /\ last.ret = <<TotalDamage(PreSelf), TRUE>>
        /\ TotalXP(Self) = TotalXP(PreSelf) + 100
        /\ Self.level > PreSelf.level

\* C23, amended. XP is awarded per attack call, not per defender: every
\* attack call with total damage >= 0 (0 included) on a defender whose health
\* is already 0 leaves it at 0, returns defeated = true and gives the
\* attacker 100 experience, so n such attacks yield n awards.  The award is
\* a level-up each time for an attacker whose experience is >= 0 (exactly
\* one when it is below 100); an attacker whose experience is below 0 gets
\* the 100 experience without a level-up.
C23_XPPerAttackCall ==
    AttackOnDead =>
        /\ last.ret = <<TotalDamage(PreSelf), TRUE>>
        /\ get_health(Enemy) = 0
        /\ last.self # last.enemy => Enemy = PreEnemy
        /\ TotalXP(Self) = TotalXP(PreSelf) + 100
        /\ PreSelf.experience >= 0 => Self.level > PreSelf.level
        /\ (0 <= PreSelf.experience /\ PreSelf.experience < LEVEL_UP_EXP) =>
              (Self.level = PreSelf.level + 1 /\ Self.experience = PreSelf.experience)
        /\ PreSelf.experience < 0 =>
              (Self.level = PreSelf.level
               /\ Self.experience = PreSelf.experience + 100)

\* The third attack in a row with total damage 0 on a defender constructed
\* dead: three awards, the last of them a level-up.
C23_Witness ==
    /\ AttackOnDead
    /\ steps = 3
    /\ TotalDamage(PreSelf) = 0
    /\ constructed[last.enemy].health = 0
    /\ TotalXP(Self) = TotalXP(constructed[last.self]) + 300
    /\ Self.level = PreSelf.level + 1

\* The iterations of the level-up loop that a logged call reports: one
\* "leveled up to level" line is printed per iteration.
LoopIterationsLogged ==
    Cardinality({i \in 1..Len(last.out) : last.out[i][1] = "leveled up to level"})

\* max(0, (experience + amount) div 100)
IterationBound(experience, amount) ==
    Max(0, (experience + amount) \div LEVEL_UP_EXP)

\* C24. gain_experience always terminates: for every character state and
\* every integer amount the level-up loop ends after finitely many
\* iterations, exactly max(0, (experience + amount) div 100) of them for
\* amount >= 0 and none for amount < 0; each iteration lowers experience by
\* exactly 100 and raises level by 1; and no operation decreases the level of
\* any character.
C24_Termination ==
    /\ last.op = "gain_experience" =>
          LET n == IF last.arg >= 0
                   THEN IterationBound(PreSelf.experience, last.arg) ELSE 0
          IN  /\ Self.level - PreSelf.level = n
              /\ last.logger => LoopIterationsLogged = n
              /\ last.arg >= 0 =>
                    Self.experience = PreSelf.experience + last.arg - LEVEL_UP_EXP * n
              /\ last.arg >= 0 => Self.experience < LEVEL_UP_EXP
    /\ \A c \in Names :
          /\ LevelUp(characters[c]).experience = characters[c].experience - LEVEL_UP_EXP
          /\ LevelUp(characters[c]).level = characters[c].level + 1
          /\ characters[c].level >= last.pre[c].level
          /\ characters[c].level >= constructed[c].level

\* A logged gain of 250 at experience 150 ended after the four iterations it
\* reports, with experience 0.
C24_Witness ==
    /\ last.op = "gain_experience"
    /\ last.logger
    /\ last.arg = 250
    /\ PreSelf.experience = 150
    /\ LoopIterationsLogged = 4
    /\ Self.level = PreSelf.level + 4
    /\ Self.experience = 0

\* C25. display() completes without error for every character, with or
\* without a weapon, and changes no character state; for a character that
\* has a weapon it prints the weapon's name and its damage bonus.
C25_DisplayCompletes ==
    last.op = "display" =>
        /\ last.ret = <<>>
        /\ characters = last.pre
        /\ Len(last.out) = 4
        /\ last.out[4] = IF PreSelf.weapon # NoWeapon
                         THEN <<"Weapon", PreSelf.weapon.name, PreSelf.weapon.damage>>
                         ELSE <<"Weapon", "No Weapon", 0>>

====
